---- MODULE Spec2Model ----
(***************************************************************************)
(* A model of the SMTP session engine of go-mproxy (src/smtp/smtp.go).     *)
(*                                                                         *)
(* Go strings and byte slices are modelled as sequences of one-character   *)
(* strings, so that trimming, splitting and the two regular expressions    *)
(* are computed character by character as the code computes them.          *)
(*                                                                         *)
(* One session (SMTPHandler.Run on one connection) is the state machine.   *)
(* The peer's input and the outcome of every read, write and close on the  *)
(* net.Conn are the environment's choice.                                  *)
(***************************************************************************)
EXTENDS Naturals, Sequences, FiniteSets

VARIABLES
    smtpState,   \* SMTPConnection.smtpState: the SMTPState record
    closing,     \* SMTPHandler.closing
    pc,          \* position of Run: "greet", "loop", "data" (in ReadDotLines), "done"
    line,        \* Run's local `line`: the last line ReadLine returned
    io,          \* the I/O calls of the current pass of the loop body, in order
    werr,        \* the bufio.Writer has recorded a write error (sticky)
    closeCount,  \* number of calls of net.Conn.Close so far
    dotLines,    \* DataCommand.Execute's `lines`: what ReadDotLines returned last
    ret,         \* what Run returned: "none" (still running), "nil", "err"
    handed,      \* the states main's completion function was invoked with, in order
    rendered,    \* what SMTPState.String returned (the specification SpecString)
    sess,        \* the sessions of the specification SpecTwo, one per connection
    heap,        \* the SMTPState objects of the sessions of SpecTwo, by reference
    table        \* the package variable smtpCommandMap as the sessions of SpecTwo see it

vars ==
    <<smtpState, closing, pc, line, io, werr, closeCount, dotLines, ret,
      handed, rendered, sess, heap, table>>

\* What a session running alone leaves untouched.
outside == <<rendered, sess, heap, table>>

(***************************************************************************)
(* Bounds of the model.                                                    *)
(***************************************************************************)

\* RCPT is not offered once Recipients holds this many addresses.
MaxRcpt == 2

\* Largest run of spaces put at each of the four places around '<' and '>'.
MaxSp == 1

\* Largest number of lines in a dot-terminated block of SpecData.
MaxBlock == 3

(***************************************************************************)
(* String literals of the source.                                          *)
(***************************************************************************)

\* "220 Simple Mail Transfer service ready"
Msg220 ==
    <<"2","2","0"," ","S","i","m","p","l","e"," ","M","a","i","l"," ","T","r","a","n","s","f","e","r"," ","s","e","r","v","i","c","e"," ","r","e","a","d","y">>

\* "550 Command must not be empty"
MsgEmptyCommand ==
    <<"5","5","0"," ","C","o","m","m","a","n","d"," ","m","u","s","t"," ","n","o","t"," ","b","e"," ","e","m","p","t","y">>

\* "550 Command not recognized"
MsgNotRecognized ==
    <<"5","5","0"," ","C","o","m","m","a","n","d"," ","n","o","t"," ","r","e","c","o","g","n","i","z","e","d">>

\* "550 Session has started"
MsgHasStarted ==
    <<"5","5","0"," ","S","e","s","s","i","o","n"," ","h","a","s"," ","s","t","a","r","t","e","d">>

\* "550 Invalid syntax (EHLO|HELO) domain"
MsgHelloSyntax ==
    <<"5","5","0"," ","I","n","v","a","l","i","d"," ","s","y","n","t","a","x"," ","(","E","H","L","O","|","H","E","L","O",")"," ","d","o","m","a","i","n">>

\* "550 Session has not started yet."
MsgNotStarted ==
    <<"5","5","0"," ","S","e","s","s","i","o","n"," ","h","a","s"," ","n","o","t"," ","s","t","a","r","t","e","d"," ","y","e","t",".">>

\* "550 Invalid syntax MAIL FROM: <foo@example.net>"
MsgMailSyntax ==
    <<"5","5","0"," ","I","n","v","a","l","i","d"," ","s","y","n","t","a","x"," ","M","A","I","L"," ","F","R","O","M",":"," ","<","f","o","o","@","e","x","a","m","p","l","e",".","n","e","t",">">>

\* "550 Invalid syntax RCPT TO: <foo@example.net>"
MsgRcptSyntax ==
    <<"5","5","0"," ","I","n","v","a","l","i","d"," ","s","y","n","t","a","x"," ","R","C","P","T"," ","T","O",":"," ","<","f","o","o","@","e","x","a","m","p","l","e",".","n","e","t",">">>

\* "250 OK"
Msg250OK ==
    <<"2","5","0"," ","O","K">>

\* "550 VRFY not supported"
MsgVrfy ==
    <<"5","5","0"," ","V","R","F","Y"," ","n","o","t"," ","s","u","p","p","o","r","t","e","d">>

\* "221 Bye"
Msg221 ==
    <<"2","2","1"," ","B","y","e">>

\* "250-", the prefix of the first line of the greeting response
Str250Dash ==
    <<"2","5","0","-">>

\* "250-AUTH PLAIN"
MsgAuthPlain ==
    <<"2","5","0","-","A","U","T","H"," ","P","L","A","I","N">>

\* "250 HELP"
MsgHelp ==
    <<"2","5","0"," ","H","E","L","P">>

\* "MAIL FROM:", the literal prefix of mailCommandPattern
StrMAILFROM ==
    <<"M","A","I","L"," ","F","R","O","M",":">>

\* "RCPT TO:", the literal prefix of recipientCommandPattern
StrRCPTTO ==
    <<"R","C","P","T"," ","T","O",":">>

\* "\r\n", appended to every body line by DataCommand.Execute
StrCRLF ==
    <<"\r","\n">>

\* The keys of smtpCommandMap.
StrHELO == <<"H","E","L","O">>
StrEHLO == <<"E","H","L","O">>
StrMAIL == <<"M","A","I","L">>
StrRCPT == <<"R","C","P","T">>
StrRSET == <<"R","S","E","T">>
StrVRFY == <<"V","R","F","Y">>
StrNOOP == <<"N","O","O","P">>
StrQUIT == <<"Q","U","I","T">>
StrDATA == <<"D","A","T","A">>

(***************************************************************************)
(* The library functions the code calls, computed on character sequences.  *)
(***************************************************************************)

\* The white space strings.TrimSpace removes: the characters of
\* unicode.IsSpace, that is tab, line feed, vertical tab, form feed,
\* carriage return, space, U+0085, U+00A0, U+1680, U+2000 to U+200A, U+2028,
\* U+2029, U+202F, U+205F and U+3000.  The characters from U+2000 on are
\* written by their code points.
WhiteSpace ==
    {"\t", "\n", "", "\f", "\r", " ", "", " ", " ",
     "U+2000", "U+2001", "U+2002", "U+2003", "U+2004", "U+2005", "U+2006",
     "U+2007", "U+2008", "U+2009", "U+200A", "U+2028", "U+2029", "U+202F",
     "U+205F", "U+3000"}

RECURSIVE TrimLeft(_)
TrimLeft(s) ==
    IF s # <<>> /\ Head(s) \in WhiteSpace THEN TrimLeft(Tail(s)) ELSE s

RECURSIVE TrimRight(_)
TrimRight(s) ==
    IF s # <<>> /\ s[Len(s)] \in WhiteSpace
    THEN TrimRight(SubSeq(s, 1, Len(s) - 1))
    ELSE s

\* strings.TrimSpace
TrimSpace(s) == TrimRight(TrimLeft(s))

\* strings.Index(s, " "): the position of the first space, 0 if there is none.
IndexSpace(s) ==
    IF \E i \in 1..Len(s) : s[i] = " "
    THEN CHOOSE i \in 1..Len(s) : s[i] = " " /\ \A j \in 1..(i - 1) : s[j] # " "
    ELSE 0

\* strings.SplitN(s, " ", 2): s itself when it holds no space (also when s
\* is empty: the result then is the one-element slice [""]), otherwise the
\* text before the first space and the text after it.
SplitN2(s) ==
    LET i == IndexSpace(s)
    IN  IF i = 0 THEN <<s>>
        ELSE <<SubSeq(s, 1, i - 1), SubSeq(s, i + 1, Len(s))>>

\* s starts with p.
HasPrefix(s, p) == Len(s) >= Len(p) /\ SubSeq(s, 1, Len(p)) = p

\* Number of leading spaces of s (the regular expressions' " *").
RECURSIVE SpaceRun(_)
SpaceRun(s) ==
    IF s # <<>> /\ Head(s) = " " THEN 1 + SpaceRun(Tail(s)) ELSE 0

\* Length of the longest prefix of s without '>' (the expressions' "[^>]+").
RECURSIVE NotGtRun(_)
NotGtRun(s) ==
    IF s # <<>> /\ Head(s) # ">" THEN 1 + NotGtRun(Tail(s)) ELSE 0

\* Mutant of FindStringSubmatch: the expression lacks its two " *", as in
\* "^" prefix "<([^>]+)>$".
FindStringSubmatchNoSpaces(prefix, s) ==
    IF ~HasPrefix(s, prefix) THEN <<>>
    ELSE LET r2 == SubSeq(s, Len(prefix) + 1, Len(s))
         IN  IF r2 = <<>> \/ Head(r2) # "<" THEN <<>>
             ELSE LET r3 == Tail(r2)
                      n  == NotGtRun(r3)
                      r4 == SubSeq(r3, n + 1, Len(r3))
                  IN  IF n = 0 \/ r4 # <<">">> THEN <<>>
                      ELSE <<s, SubSeq(r3, 1, n)>>

\* FindStringSubmatch of "^" prefix " *<([^>]+)> *$" on s: <<>> for nil (no
\* match), otherwise <<whole match, text of the group>>.
FindStringSubmatch(prefix, s) ==
    IF ~HasPrefix(s, prefix) THEN <<>>
    ELSE LET r1 == SubSeq(s, Len(prefix) + 1, Len(s))
             r2 == SubSeq(r1, SpaceRun(r1) + 1, Len(r1))
         IN  IF r2 = <<>> \/ Head(r2) # "<" THEN <<>>
             ELSE LET r3 == Tail(r2)
                      n  == NotGtRun(r3)
                      r4 == SubSeq(r3, n + 1, Len(r3))
                  IN  IF n = 0 \/ r4 = <<>> THEN <<>>
                      ELSE LET r5 == Tail(r4)
                           IN  IF SpaceRun(r5) # Len(r5) THEN <<>>
                               ELSE <<s, SubSeq(r3, 1, n)>>

\* mailCommandPattern.FindStringSubmatch
mailCommandPattern(s) == FindStringSubmatch(StrMAILFROM, s)

\* recipientCommandPattern.FindStringSubmatch
recipientCommandPattern(s) == FindStringSubmatch(StrRCPTTO, s)

(***************************************************************************)
(* SMTPState and its methods.                                              *)
(***************************************************************************)

\* &SMTPState{}: every field has its zero value.
NewSMTPState ==
    [Hello |-> <<>>, ServerName |-> <<>>, ClientName |-> <<>>,
     ReturnTo |-> <<>>, Recipients |-> <<>>, Headers |-> <<>>,
     Content |-> <<>>]

\* Mutant of HasStarted: the comparison is >= instead of >.
HasStartedOffByOne(st) == Len(st.Hello) >= 0

\* SMTPState.HasStarted
HasStarted(st) == Len(st.Hello) > 0

\* Mutant of Reset: the headers are not cleared.
ResetKeepsHeaders(st) ==
    [st EXCEPT !.ReturnTo = <<>>, !.Recipients = <<>>, !.Content = <<>>]

\* SMTPState.Reset
Reset(st) ==
    [st EXCEPT !.ReturnTo = <<>>, !.Recipients = <<>>,
               !.Headers = <<>>, !.Content = <<>>]

\* "MAIL FROM: <", "RCPT TO: <" and ">\r\n": the pieces of String's formats
StrMailFromOpen == <<"M","A","I","L"," ","F","R","O","M",":"," ","<">>
StrRcptToOpen == <<"R","C","P","T"," ","T","O",":"," ","<">>
StrCloseCRLF == <<">","\r","\n">>

\* One of String's loops: s after pre \o x \o post has been added to it for
\* each x of xs in turn.
RECURSIVE AddEach(_, _, _, _)
AddEach(s, xs, pre, post) ==
    IF xs = <<>> THEN s
    ELSE AddEach(s \o pre \o Head(xs) \o post, Tail(xs), pre, post)

\* Mutant of String: "MAIL FROM:<" and "RCPT TO:<" without the space.
StringNoSpace(st) ==
    LET s1 == <<"M","A","I","L"," ","F","R","O","M",":","<">>
                 \o st.ReturnTo \o StrCloseCRLF
        s2 == AddEach(s1, st.Recipients,
                      <<"R","C","P","T"," ","T","O",":","<">>, StrCloseCRLF)
        s3 == s2 \o StrDATA \o StrCRLF
        s4 == AddEach(s3, st.Headers, <<>>, StrCRLF)
    IN  s4 \o StrCRLF \o st.Content

\* SMTPState.String
String(st) ==
    LET s1 == StrMailFromOpen \o st.ReturnTo \o StrCloseCRLF
        s2 == AddEach(s1, st.Recipients, StrRcptToOpen, StrCloseCRLF)
        s3 == s2 \o StrDATA \o StrCRLF
        s4 == AddEach(s3, st.Headers, <<>>, StrCRLF)
    IN  s4 \o StrCRLF \o st.Content

(***************************************************************************)
(* The I/O calls of one pass are recorded as events <<op, text, ok>>:      *)
(*   <<"readline", <<>>, ok>>   SMTPConnection.ReadLine                    *)
(*   <<"readdot",  <<>>, ok>>   SMTPConnection.ReadDotLines                *)
(*   <<"write",    msg,  ok>>   one PrintfLine of SMTPConnection.Send      *)
(*   <<"close",    <<>>, ok>>   SMTPHandler.Close, that is net.Conn.Close  *)
(***************************************************************************)

EvRead(ok) == <<"readline", <<>>, ok>>
EvReadDot(ok) == <<"readdot", <<>>, ok>>
EvWrite(msg, ok) == <<"write", msg, ok>>
EvClose(ok) == <<"close", <<>>, ok>>

\* The outcomes the connection allows for Send(msgs...): k is the number of
\* lines written before the first failure.  Once the bufio.Writer has
\* recorded an error every later write fails.
SendChoices(msgs, we) == IF we THEN {0} ELSE 0..Len(msgs)

\* SMTPConnection.Send(msgs...) when exactly k lines are written: the lines
\* are printed in order, the first failure ends the call with its error.
Send(msgs, k) ==
    [io  |-> [i \in 1..(IF k < Len(msgs) THEN k + 1 ELSE k) |->
                 EvWrite(msgs[i], i <= k)],
     err |-> k < Len(msgs)]

(***************************************************************************)
(* The command handlers that change the state and then answer: each gives  *)
(* the state after it and the lines it hands to Send.                      *)
(***************************************************************************)

\* Mutant of HelloCommandExecute: the start check is missing, so a second
\* greeting is accepted like the first.
HelloCommandExecuteRestarts(st, s) ==
    LET xs == SplitN2(TrimSpace(s))
    IN  IF Len(xs) < 2
        THEN [st |-> st, msgs |-> <<MsgHelloSyntax>>]
        ELSE [st   |-> [st EXCEPT !.Hello = xs[1], !.ClientName = xs[2]],
              msgs |-> <<Str250Dash \o st.ServerName, MsgAuthPlain, MsgHelp>>]

\* HelloCommand.Execute
HelloCommandExecute(st, s) ==
    IF HasStarted(st)
    THEN [st |-> st, msgs |-> <<MsgHasStarted>>]
    ELSE LET xs == SplitN2(TrimSpace(s))
         IN  IF Len(xs) < 2
             THEN [st |-> st, msgs |-> <<MsgHelloSyntax>>]
             ELSE [st   |-> [st EXCEPT !.Hello = xs[1], !.ClientName = xs[2]],
                   msgs |-> <<Str250Dash \o st.ServerName, MsgAuthPlain,
                              MsgHelp>>]

\* Mutant of MailCommandExecute: the return path is assigned before the
\* match is checked, so a syntax error clears it.
MailCommandExecuteAssignsFirst(st, s) ==
    IF ~HasStarted(st)
    THEN [st |-> st, msgs |-> <<MsgNotStarted>>]
    ELSE LET xs == mailCommandPattern(s)
         IN  IF xs = <<>> \/ Len(xs) # 2
             THEN [st   |-> [st EXCEPT !.ReturnTo = <<>>],
                   msgs |-> <<MsgMailSyntax>>]
             ELSE [st   |-> [st EXCEPT !.ReturnTo = xs[2]],
                   msgs |-> <<Msg250OK>>]

\* MailCommand.Execute
MailCommandExecute(st, s) ==
    IF ~HasStarted(st)
    THEN [st |-> st, msgs |-> <<MsgNotStarted>>]
    ELSE LET xs == mailCommandPattern(s)
         IN  IF xs = <<>> \/ Len(xs) # 2
             THEN [st |-> st, msgs |-> <<MsgMailSyntax>>]
             ELSE [st   |-> [st EXCEPT !.ReturnTo = xs[2]],
                   msgs |-> <<Msg250OK>>]

\* Mutant of RecipientCommandExecute: an address already stored is not
\* stored again.
RecipientCommandExecuteDedup(st, s) ==
    IF ~HasStarted(st)
    THEN [st |-> st, msgs |-> <<MsgNotStarted>>]
    ELSE LET xs == recipientCommandPattern(s)
         IN  IF xs = <<>> \/ Len(xs) # 2
             THEN [st |-> st, msgs |-> <<MsgRcptSyntax>>]
             ELSE [st   |-> IF \E i \in 1..Len(st.Recipients) :
                                   st.Recipients[i] = xs[2]
                            THEN st
                            ELSE [st EXCEPT !.Recipients = Append(@, xs[2])],
                   msgs |-> <<Msg250OK>>]

\* RecipientCommand.Execute
RecipientCommandExecute(st, s) ==
    IF ~HasStarted(st)
    THEN [st |-> st, msgs |-> <<MsgNotStarted>>]
    ELSE LET xs == recipientCommandPattern(s)
         IN  IF xs = <<>> \/ Len(xs) # 2
             THEN [st |-> st, msgs |-> <<MsgRcptSyntax>>]
             ELSE [st   |-> [st EXCEPT !.Recipients = Append(@, xs[2])],
                   msgs |-> <<Msg250OK>>]

\* ResetCommand.Execute
ResetCommandExecute(st, s) == [st |-> Reset(st), msgs |-> <<Msg250OK>>]

\* VerifyCommand.Execute
VerifyCommandExecute(st, s) == [st |-> st, msgs |-> <<MsgVrfy>>]

\* NoopCommand.Execute
NoopCommandExecute(st, s) == [st |-> st, msgs |-> <<Msg250OK>>]

\* Mutant of SplitData: the test for the separator lacks "!inBody", so every
\* blank line is dropped.
RECURSIVE SplitDataDropsBlanks(_, _, _, _)
SplitDataDropsBlanks(lines, inBody, headers, content) ==
    IF lines = <<>> THEN <<headers, content>>
    ELSE LET x == Head(lines)
         IN  IF Len(TrimSpace(x)) = 0
             THEN SplitDataDropsBlanks(Tail(lines), TRUE, headers, content)
             ELSE IF inBody
                  THEN SplitDataDropsBlanks(Tail(lines), inBody, headers,
                                            content \o x \o StrCRLF)
                  ELSE SplitDataDropsBlanks(Tail(lines), inBody,
                                            Append(headers, x), content)

\* The header/body split of DataCommand.Execute over the lines ReadDotLines
\* returned: <<headers, content>>.
RECURSIVE SplitData(_, _, _, _)
SplitData(lines, inBody, headers, content) ==
    IF lines = <<>> THEN <<headers, content>>
    ELSE LET x == Head(lines)
         IN  IF ~inBody /\ Len(TrimSpace(x)) = 0
             THEN SplitData(Tail(lines), TRUE, headers, content)
             ELSE IF inBody
                  THEN SplitData(Tail(lines), inBody, headers,
                                 content \o x \o StrCRLF)
                  ELSE SplitData(Tail(lines), inBody, Append(headers, x),
                                 content)

\* Mutant of DataCommandStore: the split is appended to what the state holds.
DataCommandStoreAppends(st, lines) ==
    LET r == SplitData(lines, FALSE, <<>>, <<>>)
    IN  [st EXCEPT !.Headers = @ \o r[1], !.Content = @ \o r[2]]

\* What DataCommand.Execute stores for a block it has read.
DataCommandStore(st, lines) ==
    LET r == SplitData(lines, FALSE, <<>>, <<>>)
    IN  [st EXCEPT !.Headers = r[1], !.Content = r[2]]

(***************************************************************************)
(* The dispatch table and the session loop.                                *)
(***************************************************************************)

\* smtpCommandMap: verb -> handler
smtpCommandMap ==
    [k \in {StrHELO, StrEHLO, StrMAIL, StrRCPT, StrRSET, StrVRFY, StrNOOP,
            StrQUIT, StrDATA} |->
        CASE k = StrHELO -> "HelloCommand"
          [] k = StrEHLO -> "HelloCommand"
          [] k = StrMAIL -> "MailCommand"
          [] k = StrRCPT -> "RecipientCommand"
          [] k = StrRSET -> "ResetCommand"
          [] k = StrVRFY -> "VerifyCommand"
          [] k = StrNOOP -> "NoopCommand"
          [] k = StrQUIT -> "QuitCommand"
          [] k = StrDATA -> "DataCommand"]

\* Run's handling of a line it has read: which branch of the loop body the
\* line takes.  "empty" is the len(xs) == 0 branch, "unknown" the else
\* branch of the table lookup.
Route(l) ==
    LET xs == SplitN2(TrimSpace(l))
    IN  IF Len(xs) = 0 THEN "empty"
        ELSE IF xs[1] \in DOMAIN smtpCommandMap THEN smtpCommandMap[xs[1]]
        ELSE "unknown"

\* Number of Close events among evs.
Closes(evs) == Cardinality({i \in 1..Len(evs) : evs[i][1] = "close"})

\* Some write among evs failed.
WriteFailed(evs) == \E i \in 1..Len(evs) : evs[i][1] = "write" /\ ~evs[i][3]

\* NewSMTPHandler, then the start of Run: nothing read or written yet.
Init ==
    /\ smtpState = NewSMTPState
    /\ closing = FALSE
    /\ pc = "greet"
    /\ line = <<>>
    /\ io = <<>>
    /\ werr = FALSE
    /\ closeCount = 0
    /\ dotLines = <<>>
    /\ ret = "none"
    /\ handed = <<>>
    /\ rendered = <<>>
    /\ sess = <<>>
    /\ heap = <<>>
    /\ table = smtpCommandMap

\* Run up to its loop: the service-ready line is sent, its error is dropped.
Greet ==
    /\ pc = "greet"
    /\ \E k \in SendChoices(<<Msg220>>, werr) :
          LET s == Send(<<Msg220>>, k)
          IN  /\ io' = s.io
              /\ werr' = (werr \/ s.err)
    /\ pc' = "loop"
    /\ UNCHANGED <<smtpState, closing, line, closeCount, dotLines, ret>>
    /\ UNCHANGED <<handed, outside>>

\* Mutant of EndOfPass: Run has no deferred h.Close().
EndOfPassNoDeferredClose(l, st, cl, evs, err) ==
    /\ line' = l
    /\ smtpState' = st
    /\ werr' = (werr \/ WriteFailed(evs))
    /\ UNCHANGED <<handed, outside>>
    /\ io' = evs
    /\ closing' = cl
    /\ closeCount' = closeCount + Closes(evs)
    /\ IF err \/ cl
       THEN /\ pc' = "done"
            /\ ret' = IF err THEN "err" ELSE "nil"
       ELSE /\ pc' = "loop"
            /\ ret' = ret

\* The end of one pass of Run's loop body that read line l, left the state
\* st and the closing flag cl, made the calls evs and has the error err
\* (TRUE: the body returns it).  Run goes on with the next pass unless it
\* returns, because of the error or because closing is set; when it returns
\* the deferred h.Close() runs.
EndOfPass(l, st, cl, evs, err) ==
    /\ line' = l
    /\ smtpState' = st
    /\ werr' = (werr \/ WriteFailed(evs))
    /\ UNCHANGED <<handed, outside>>
    /\ IF err \/ cl
       THEN \E dok \in BOOLEAN :
               /\ io' = Append(evs, EvClose(dok))
               /\ closing' = TRUE
               /\ closeCount' = closeCount + Closes(evs) + 1
               /\ pc' = "done"
               /\ ret' = IF err THEN "err" ELSE "nil"
       ELSE /\ io' = evs
            /\ closing' = cl
            /\ closeCount' = closeCount + Closes(evs)
            /\ pc' = "loop"
            /\ ret' = ret

\* Run reads a line while the loop condition !h.closing holds.
AtReadLine == pc = "loop" /\ ~closing

\* ReadLine fails (it then returns the empty string): Run returns the error.
ReadLineFail ==
    /\ AtReadLine
    /\ EndOfPass(<<>>, smtpState, closing, <<EvRead(FALSE)>>, TRUE)
    /\ UNCHANGED dotLines

\* A pass whose handler changes the state and returns Send's result.
Answer(l, h) ==
    \E k \in SendChoices(h.msgs, werr) :
        LET s == Send(h.msgs, k)
        IN  /\ EndOfPass(l, h.st, closing, <<EvRead(TRUE)>> \o s.io, s.err)
            /\ UNCHANGED dotLines

HelloCommand(l) ==
    /\ AtReadLine /\ Route(l) = "HelloCommand"
    /\ Answer(l, HelloCommandExecute(smtpState, l))

MailCommand(l) ==
    /\ AtReadLine /\ Route(l) = "MailCommand"
    /\ Answer(l, MailCommandExecute(smtpState, l))

RecipientCommand(l) ==
    /\ AtReadLine /\ Route(l) = "RecipientCommand"
    /\ Answer(l, RecipientCommandExecute(smtpState, l))

ResetCommand(l) ==
    /\ AtReadLine /\ Route(l) = "ResetCommand"
    /\ Answer(l, ResetCommandExecute(smtpState, l))

VerifyCommand(l) ==
    /\ AtReadLine /\ Route(l) = "VerifyCommand"
    /\ Answer(l, VerifyCommandExecute(smtpState, l))

NoopCommand(l) ==
    /\ AtReadLine /\ Route(l) = "NoopCommand"
    /\ Answer(l, NoopCommandExecute(smtpState, l))

\* The lookup fails: "550 Command not recognized".  (The len(xs) == 0 branch
\* before it answers "550 Command must not be empty" and then indexes xs[0].)
NotRecognized(l) ==
    /\ AtReadLine /\ Route(l) \in {"empty", "unknown"}
    /\ Answer(l, [st   |-> smtpState,
                  msgs |-> IF Route(l) = "empty"
                           THEN <<MsgEmptyCommand>>
                           ELSE <<MsgNotRecognized>>])

\* Mutant of QuitCommand: conn.Quit() closes the connection without setting
\* the handler's closing flag.
QuitCommandClosesConnOnly(l) ==
    /\ AtReadLine /\ Route(l) = "QuitCommand"
    /\ \E cok \in BOOLEAN :
          IF ~cok
          THEN EndOfPass(l, smtpState, closing,
                         <<EvRead(TRUE), EvClose(FALSE)>>, TRUE)
          ELSE \E k \in SendChoices(<<Msg221>>, werr) :
                  LET s == Send(<<Msg221>>, k)
                  IN  EndOfPass(l, smtpState, closing,
                                <<EvRead(TRUE), EvClose(TRUE)>> \o s.io,
                                s.err)
    /\ UNCHANGED dotLines

\* Mutant of QuitCommand: the error of conn.Quit() is dropped and "221 Bye"
\* is sent in every case.
QuitCommandDropsCloseError(l) ==
    /\ AtReadLine /\ Route(l) = "QuitCommand"
    /\ \E cok \in BOOLEAN :
          \E k \in SendChoices(<<Msg221>>, werr) :
              LET s == Send(<<Msg221>>, k)
              IN  EndOfPass(l, smtpState, TRUE,
                            <<EvRead(TRUE), EvClose(cok)>> \o s.io, s.err)
    /\ UNCHANGED dotLines

\* QuitCommand.Execute: conn.Quit() is h.Close(), which sets closing and
\* closes the connection; its error is returned at once, otherwise the
\* result of Send("221 Bye").
QuitCommand(l) ==
    /\ AtReadLine /\ Route(l) = "QuitCommand"
    /\ \E cok \in BOOLEAN :
          IF ~cok
          THEN EndOfPass(l, smtpState, TRUE,
                         <<EvRead(TRUE), EvClose(FALSE)>>, TRUE)
          ELSE \E k \in SendChoices(<<Msg221>>, werr) :
                  LET s == Send(<<Msg221>>, k)
                  IN  EndOfPass(l, smtpState, TRUE,
                                <<EvRead(TRUE), EvClose(TRUE)>> \o s.io,
                                s.err)
    /\ UNCHANGED dotLines

\* DataCommand.Execute up to its call of ReadDotLines: the prompt "250 OK" is
\* sent; its error is returned, otherwise the handler waits for the block.
DataCommand(l) ==
    /\ AtReadLine /\ Route(l) = "DataCommand"
    /\ \E k \in SendChoices(<<Msg250OK>>, werr) :
          LET s == Send(<<Msg250OK>>, k)
          IN  IF s.err
              THEN EndOfPass(l, smtpState, closing,
                             <<EvRead(TRUE)>> \o s.io, TRUE)
              ELSE /\ line' = l
                   /\ io' = <<EvRead(TRUE)>> \o s.io
                   /\ pc' = "data"
                   /\ UNCHANGED <<smtpState, closing, werr, closeCount, ret,
                                  handed, outside>>
    /\ UNCHANGED dotLines

\* DataCommand.Execute is in ReadDotLines, the prompt written.
AtReadDotLines == pc = "data"

\* Mutant of DataCommandReadDotLines: a second "250 OK" is sent after the
\* block has been stored.
DataCommandConfirms(rok, lines) ==
    /\ AtReadDotLines
    /\ IF ~rok
       THEN EndOfPass(line, smtpState, closing,
                      io \o <<EvReadDot(FALSE)>>, TRUE)
       ELSE \E k2 \in SendChoices(<<Msg250OK>>, FALSE) :
               LET s2 == Send(<<Msg250OK>>, k2)
               IN  EndOfPass(line, DataCommandStore(smtpState, lines),
                             closing, io \o <<EvReadDot(TRUE)>> \o s2.io,
                             s2.err)
    /\ dotLines' = lines

\* Mutant of DataCommandReadDotLines: the lines read before a failure of
\* ReadDotLines are split and stored before the error is returned.
DataCommandStoresPartial(rok, lines) ==
    /\ AtReadDotLines
    /\ EndOfPass(line, DataCommandStore(smtpState, lines), closing,
                 io \o <<EvReadDot(rok)>>, ~rok)
    /\ dotLines' = lines

\* The rest of DataCommand.Execute, from the return of ReadDotLines: rok is
\* whether it succeeds, lines what it returns (when it fails, the lines it
\* had read before the failure).  Its error is returned; otherwise the split
\* is stored and the pass ends without another response.
DataCommandReadDotLines(rok, lines) ==
    /\ AtReadDotLines
    /\ IF ~rok
       THEN EndOfPass(line, smtpState, closing,
                      io \o <<EvReadDot(FALSE)>>, TRUE)
       ELSE EndOfPass(line, DataCommandStore(smtpState, lines), closing,
                      io \o <<EvReadDot(TRUE)>>, FALSE)
    /\ dotLines' = lines

(***************************************************************************)
(* The peer's input.                                                       *)
(***************************************************************************)

\* n spaces
Sp(n) == [i \in 1..n |-> " "]

\* prefix, then a spaces, '<', b spaces, addr, c spaces, '>', d spaces
AddrLine(prefix, a, b, c, d, addr) ==
    prefix \o Sp(a) \o <<"<">> \o Sp(b) \o addr \o Sp(c) \o <<">">> \o Sp(d)

AddrABC == <<"a","@","b",".","c">>
AddrFG == <<"f","@","g">>
AddrU1 == <<"u","1","@","x">>
AddrU2 == <<"u","2","@","x">>

LnHeloX == <<"H","E","L","O"," ","x">>
LnEhloY == <<"E","H","L","O"," ","y">>
LnHeloNoArg == <<"H","E","L","O">>
LnHeloLower == <<"h","e","l","o"," ","x">>
LnEhloFF == <<"\f">> \o LnEhloY \o <<"\r">>
LnQuitCR == StrQUIT \o <<"\r">>
LnFooBar == <<"F","O","O"," ","b","a","r">>
LnEmpty == <<>>
LnBlank == <<" ">>
LnMailABC == AddrLine(StrMAILFROM, 0, 0, 0, 0, AddrABC)
LnMailFG == AddrLine(StrMAILFROM, 1, 0, 0, 0, AddrFG)
LnMailNoBrackets == StrMAILFROM \o AddrABC
LnMailEmptyAddr == StrMAILFROM \o <<"<",">">>
LnMailLeadingSp == <<" ">> \o LnMailABC
LnMailLower == <<"M","A","I","L"," ","f","r","o","m",":","<","a","@","b",".","c",">">>
LnRcptU1 == AddrLine(StrRCPTTO, 0, 0, 0, 0, AddrU1)
LnRcptU2 == AddrLine(StrRCPTTO, 0, 0, 0, 0, AddrU2)
LnRcptNoBrackets == StrRCPTTO \o AddrU1
LnRcptBare == StrRCPT
LnRset == StrRSET
LnVrfy == <<"V","R","F","Y"," ","u","1","@","x">>
LnNoop == StrNOOP
LnQuit == StrQUIT
LnData == StrDATA

\* The lines the peer sends in Spec.
Lines ==
    {LnHeloX, LnEhloY, LnHeloNoArg, LnHeloLower, LnEhloFF, LnQuitCR,
     LnFooBar, LnEmpty, LnBlank,
     LnMailABC, LnMailFG, LnMailNoBrackets, LnMailEmptyAddr, LnMailLeadingSp,
     LnMailLower, LnRcptU1, LnRcptU2, LnRcptNoBrackets, LnRcptBare, LnRset,
     LnVrfy, LnNoop, LnQuit, LnData}

LnSubjectHi == <<"S","u","b","j","e","c","t",":"," ","h","i">>
LnLine1 == <<"l","i","n","e","1">>
LnLine2 == <<"l","i","n","e","2">>

\* The block ["Subject: hi", "", "line1", "", "line2"]
BlockExample == <<LnSubjectHi, <<>>, LnLine1, <<>>, LnLine2>>

\* The block ["RSET", "\r", "QUIT"]: its lines read like commands; the line
\* between them is a lone carriage return (the peer sent CR CR LF).
BlockCommands == <<LnRset, <<"\r">>, LnQuit>>

\* The dot-terminated blocks the peer sends in Spec.
Blocks ==
    {<<>>, <<LnSubjectHi>>, <<<<>>, LnLine1>>, <<LnSubjectHi, LnBlank, LnLine2>>,
     BlockExample, BlockCommands}

(***************************************************************************)
(* The session: Run over any sequence of the lines of Lines.               *)
(***************************************************************************)

Next ==
    \/ Greet
    \/ ReadLineFail
    \/ \E l \in Lines : HelloCommand(l)
    \/ \E l \in Lines : MailCommand(l)
    \/ \E l \in Lines :
          Len(smtpState.Recipients) < MaxRcpt /\ RecipientCommand(l)
    \/ \E l \in Lines : ResetCommand(l)
    \/ \E l \in Lines : VerifyCommand(l)
    \/ \E l \in Lines : NoopCommand(l)
    \/ \E l \in Lines : NotRecognized(l)
    \/ \E l \in Lines : QuitCommand(l)
    \/ \E l \in Lines : DataCommand(l)
    \/ \E b \in Blocks : DataCommandReadDotLines(TRUE, b)
    \/ \E b \in Blocks : DataCommandReadDotLines(FALSE, b)

Spec == Init /\ [][Next]_vars

(***************************************************************************)
(* Vocabulary of the properties.                                           *)
(***************************************************************************)

IsWrite(e) == e[1] = "write"

\* The lines handed to PrintfLine among evs, in order.
WrittenLines(evs) ==
    LET w == SelectSeq(evs, IsWrite) IN [i \in 1..Len(w) |-> w[i][2]]

\* State predicate: the current or last pass of the loop body read l.
Passed(l) == io # <<>> /\ io[1] = EvRead(TRUE) /\ line = l

\* Action predicate: this step begins a pass of the loop body by reading l
\* (and ends it, unless the pass is a DATA waiting for its block).
Pass(l) == AtReadLine /\ io' # <<>> /\ io'[1] = EvRead(TRUE) /\ line' = l

\* The first token of a line, as the session loop takes it: the text of the
\* trimmed line up to its first space.
FirstToken(l) == SplitN2(TrimSpace(l))[1]

\* The nine verbs.
Verbs ==
    {StrHELO, StrEHLO, StrMAIL, StrRCPT, StrRSET, StrVRFY, StrNOOP, StrQUIT,
     StrDATA}

\* The envelope fields are all empty.
EnvelopeEmpty(st) ==
    /\ st.ReturnTo = <<>>
    /\ st.Recipients = <<>>
    /\ st.Headers = <<>>
    /\ st.Content = <<>>

(***************************************************************************)
(* C1.  In every reachable state, if greetingVerb (Hello) is empty then    *)
(* returnPath, recipients, headers and body are all empty.                 *)
(* The code does not keep this: DATA has no start check, so a DATA before  *)
(* HELO/EHLO stores headers and body.                                      *)
(***************************************************************************)
C1_NotStartedEnvelopeEmpty ==
    ~HasStarted(smtpState) => EnvelopeEmpty(smtpState)

(***************************************************************************)
(* C2.  In a run of Run that processed QUIT, net.Conn.Close is invoked     *)
(* exactly once over the whole run.                                        *)
(* The code calls it twice: in the QUIT handler and in Run's deferred      *)
(* h.Close().                                                              *)
(***************************************************************************)
C2_QuitClosesOnce ==
    (pc = "done" /\ Passed(line) /\ Route(line) = "QuitCommand")
        => closeCount = 1

(***************************************************************************)
(* C3 as claimed.  Every execution of the QUIT handler that attempts the   *)
(* close also attempts to write "221 Bye" after it, whatever the outcome   *)
(* of the close.                                                           *)
(***************************************************************************)
C3_QuitAlwaysWrites221 ==
    (Passed(line) /\ Route(line) = "QuitCommand")
        => \E i, j \in 1..Len(io) :
              i < j /\ io[i][1] = "close" /\ io[j][1] = "write"
                    /\ io[j][2] = Msg221

(***************************************************************************)
(* C3 as amended.  The QUIT handler first closes the connection.  If the   *)
(* close succeeds it then attempts to write "221 Bye", exactly once; if    *)
(* the close fails it returns that error and writes nothing.  (The last    *)
(* event is the deferred close of Run.)                                    *)
(***************************************************************************)
C3_QuitWrites221AfterSuccessfulClose ==
    (Passed(line) /\ Route(line) = "QuitCommand")
        => /\ Len(io) >= 3
           /\ io[2][1] = "close"
           /\ IF io[2][3]
              THEN /\ Len(io) = 4
                   /\ io[3][1] = "write" /\ io[3][2] = Msg221
                   /\ io[4][1] = "close"
              ELSE /\ Len(io) = 3
                   /\ io[3][1] = "close"
                   /\ WrittenLines(io) = <<>>
                   /\ ret = "err"

\* A QUIT whose close succeeded and whose "221 Bye" was then written.
C3_Witness ==
    /\ Passed(LnQuit)
    /\ io[2] = EvClose(TRUE)
    /\ io[3] = EvWrite(Msg221, TRUE)
    /\ pc = "done"

(***************************************************************************)
(* C4.  A protocol error never changes state or ends the session: MAIL or  *)
(* RCPT before the greeting, a MAIL/RCPT line that does not match its      *)
(* form, HELO/EHLO on a started session or without argument, VRFY, and a   *)
(* line whose first token is none of the nine verbs are each answered by   *)
(* exactly one line that starts with 550, leave the Session State          *)
(* unchanged and, if the write succeeds, the loop goes on reading.         *)
(***************************************************************************)
IsProtocolError(st, l) ==
    LET v == FirstToken(l)
    IN  \/ v \in {StrMAIL, StrRCPT} /\ st.Hello = <<>>
        \/ v = StrMAIL /\ mailCommandPattern(l) = <<>>
        \/ v = StrRCPT /\ recipientCommandPattern(l) = <<>>
        \/ v \in {StrHELO, StrEHLO} /\ st.Hello # <<>>
        \/ v \in {StrHELO, StrEHLO} /\ TrimSpace(l) = v
        \/ v = StrVRFY
        \/ v \notin Verbs

C4_ProtocolErrorStep ==
    \A l \in Lines :
        (Pass(l) /\ IsProtocolError(smtpState, l))
            => /\ smtpState' = smtpState
               /\ Len(io') = 2 \/ (Len(io') = 3 /\ io'[3][1] = "close")
               /\ io'[2][1] = "write"
               /\ SubSeq(io'[2][2], 1, 3) = <<"5","5","0">>
               /\ Len(WrittenLines(io')) = 1
               /\ io'[2][3] => (pc' = "loop" /\ ~closing' /\ ret' = "none"
                                 /\ closeCount' = closeCount)

\* C4: every step of the session answers a protocol error with one 550 line,
\* keeps the Session State and, the write succeeding, keeps the session open.
C4_ProtocolErrorKeepsSession == [][C4_ProtocolErrorStep]_vars

\* An unknown verb answered on a session with a recipient stored, the loop
\* going on.
C4_Witness ==
    /\ Passed(LnFooBar)
    /\ io = <<EvRead(TRUE), EvWrite(MsgNotRecognized, TRUE)>>
    /\ smtpState.Recipients # <<>>
    /\ pc = "loop"

(***************************************************************************)
(* C5.  A line that is empty after trimming is answered by exactly one     *)
(* line, "550 Command must not be empty", no handler runs, the Session     *)
(* State is unchanged and the session stays open.                          *)
(* The code answers "550 Command not recognized": strings.SplitN never     *)
(* returns an empty slice here, so the len(xs) == 0 branch is dead.        *)
(***************************************************************************)
C5_EmptyLineStep ==
    \A l \in Lines :
        (Pass(l) /\ TrimSpace(l) = <<>>)
            => /\ WrittenLines(io') = <<MsgEmptyCommand>>
               /\ smtpState' = smtpState
               /\ io'[2][3] => (pc' = "loop" /\ ~closing')

\* C5: every step that reads a line empty after trimming answers exactly
\* "550 Command must not be empty" and keeps the state and the session.
C5_EmptyLineSyntaxError == [][C5_EmptyLineStep]_vars

(***************************************************************************)
(* C6.  recipients changes only in two ways: an RCPT on a started session  *)
(* whose line matches TO:<addr> appends exactly addr at the end (earlier   *)
(* entries and duplicates kept); RSET makes it empty.  No other command    *)
(* and no rejected RCPT changes it.                                        *)
(***************************************************************************)

\* The address of each well-formed RCPT line of Lines.
RcptAddr(l) ==
    CASE l = LnRcptU1 -> AddrU1
      [] l = LnRcptU2 -> AddrU2

C6_RecipientsStep ==
    LET R  == smtpState.Recipients
        R2 == smtpState'.Recipients
    IN  /\ \A l \in {LnRcptU1, LnRcptU2} :
              (Pass(l) /\ smtpState.Hello # <<>>)
                  => /\ Len(R2) = Len(R) + 1
                     /\ R2[Len(R2)] = RcptAddr(l)
                     /\ \A i \in 1..Len(R) : R2[i] = R[i]
        /\ \A l \in Lines : (Pass(l) /\ FirstToken(l) = StrRSET) => R2 = <<>>
        /\ R2 # R
              => \/ \E l \in {LnRcptU1, LnRcptU2} :
                       Pass(l) /\ smtpState.Hello # <<>>
                 \/ \E l \in Lines : Pass(l) /\ FirstToken(l) = StrRSET

\* C6: every step changes recipients only by the append of an accepted RCPT
\* or by the reset of RSET.
C6_RecipientsAppendOrReset == [][C6_RecipientsStep]_vars

\* RCPT TO:<u1@x> then RCPT TO:<u2@x> gave [u1@x, u2@x].
C6_Witness ==
    /\ Passed(LnRcptU2)
    /\ smtpState.Recipients = <<AddrU1, AddrU2>>

(***************************************************************************)
(* C7.  An RCPT received while the session has not started is answered     *)
(* "550 Session has not started yet." and recipients is empty afterwards,  *)
(* whatever preceded it.                                                   *)
(***************************************************************************)
C7_RcptBeforeHelloStep ==
    \A l \in Lines :
        (Pass(l) /\ FirstToken(l) = StrRCPT /\ smtpState.Hello = <<>>)
            => /\ WrittenLines(io') = <<MsgNotStarted>>
               /\ smtpState'.Recipients = <<>>

\* C7: every RCPT step before the greeting answers the sequence error and
\* leaves recipients empty.
C7_RcptBeforeHello == [][C7_RcptBeforeHelloStep]_vars

\* A well-formed RCPT refused before the greeting, after a DATA that stored
\* headers.
C7_Witness ==
    /\ Passed(LnRcptU1)
    /\ smtpState.Hello = <<>>
    /\ smtpState.Headers # <<>>
    /\ io = <<EvRead(TRUE), EvWrite(MsgNotStarted, TRUE)>>

(***************************************************************************)
(* C8.  RSET leaves returnPath, recipients, headers and body empty, leaves *)
(* greetingVerb, serverName and clientName unchanged and answers one       *)
(* "250 OK" line; an RSET directly after an RSET leaves the whole Session  *)
(* State unchanged.                                                        *)
(***************************************************************************)
C8_ResetStep ==
    \A l \in Lines :
        (Pass(l) /\ FirstToken(l) = StrRSET)
            => /\ EnvelopeEmpty(smtpState')
               /\ smtpState'.Hello = smtpState.Hello
               /\ smtpState'.ServerName = smtpState.ServerName
               /\ smtpState'.ClientName = smtpState.ClientName
               /\ WrittenLines(io') = <<Msg250OK>>
               /\ (Passed(line) /\ FirstToken(line) = StrRSET)
                     => smtpState' = smtpState

\* C8: every RSET step empties the envelope, keeps the identity fields and
\* answers one "250 OK"; a second RSET changes nothing.
C8_ResetClearsEnvelope == [][C8_ResetStep]_vars

\* An RSET on a started session that had stored the headers of a block.
C8_Witness ==
    /\ Passed(LnRset)
    /\ smtpState.Hello = StrEHLO
    /\ smtpState.ClientName # <<>>
    /\ dotLines = BlockExample
    /\ EnvelopeEmpty(smtpState)
    /\ io = <<EvRead(TRUE), EvWrite(Msg250OK, TRUE)>>

(***************************************************************************)
(* SpecData: sessions whose DATA commands receive every block of at most   *)
(* MaxBlock lines over four kinds of line (empty, white space only, two    *)
(* texts), and the block of the example.                                   *)
(***************************************************************************)

\* All sequences over S of length at most n.
SeqsUpTo(S, n) == UNION {[1..k -> S] : k \in 0..n}

DataLineKinds == {<<>>, <<" ", "\r">>, <<"h">>, <<"b">>}

DataBlocks == SeqsUpTo(DataLineKinds, MaxBlock) \cup {BlockExample}

NextData ==
    \/ Greet
    \/ ReadLineFail
    \/ HelloCommand(LnHeloX)
    \/ ResetCommand(LnRset)
    \/ QuitCommand(LnQuit)
    \/ DataCommand(LnData)
    \/ \E b \in DataBlocks : DataCommandReadDotLines(TRUE, b)
    \/ DataCommandReadDotLines(FALSE, <<>>)

SpecData == Init /\ [][NextData]_vars

\* x is empty after trimming white space.
IsBlankLine(x) == \A i \in 1..Len(x) : x[i] \in WhiteSpace

\* The lines of ls from position i on, each followed by CR LF, concatenated.
RECURSIVE BodyFrom(_, _)
BodyFrom(ls, i) ==
    IF i > Len(ls) THEN <<>> ELSE ls[i] \o <<"\r", "\n">> \o BodyFrom(ls, i + 1)

\* State predicate: the last step was a DATA that read and stored a block.
DataStored == io # <<>> /\ io[Len(io)] = EvReadDot(TRUE)

(***************************************************************************)
(* C9.  For every dot-terminated block given to DATA: headers are the      *)
(* lines before the first line that is empty after trimming, verbatim and  *)
(* in order; that line is stored nowhere; body is every later line, each   *)
(* followed by CR LF, in order (later blank lines stay).  Without a blank  *)
(* line all lines are headers and the body is empty.  The block            *)
(* ["Subject: hi", "", "line1", "", "line2"] gives headers ["Subject: hi"] *)
(* and body "line1\r\n\r\nline2\r\n".                                      *)
(***************************************************************************)
C9_DataSplit ==
    DataStored =>
        LET B      == dotLines
            blanks == {i \in 1..Len(B) : IsBlankLine(B[i])}
        IN  /\ IF blanks = {}
               THEN /\ smtpState.Headers = B
                    /\ smtpState.Content = <<>>
               ELSE LET f == CHOOSE i \in blanks : \A j \in blanks : i <= j
                    IN  /\ smtpState.Headers = SubSeq(B, 1, f - 1)
                        /\ smtpState.Content = BodyFrom(B, f + 1)
            /\ B = BlockExample =>
                  /\ smtpState.Headers = <<LnSubjectHi>>
                  /\ smtpState.Content =
                        <<"l","i","n","e","1","\r","\n","\r","\n",
                          "l","i","n","e","2","\r","\n">>

\* The block of the example has been stored.
C9_Witness ==
    /\ DataStored
    /\ dotLines = BlockExample
    /\ smtpState.Headers = <<LnSubjectHi>>
    /\ Len(smtpState.Content) = 16

(***************************************************************************)
(* SpecAddr: sessions whose MAIL and RCPT lines carry the address a@b.c    *)
(* with every spacing of 0..MaxSp spaces before '<', after '<', before '>' *)
(* and after '>'.  RCPT is offered while recipients is empty.              *)
(***************************************************************************)

SpRange == 0..MaxSp

SpacedLines(prefix) ==
    {AddrLine(prefix, a, b, c, d, AddrABC) : a, b, c, d \in SpRange}

NextAddr ==
    \/ Greet
    \/ HelloCommand(LnHeloX)
    \/ ResetCommand(LnRset)
    \/ \E l \in SpacedLines(StrMAILFROM) : MailCommand(l)
    \/ \E l \in SpacedLines(StrRCPTTO) :
          smtpState.Recipients = <<>> /\ RecipientCommand(l)

SpecAddr == Init /\ [][NextAddr]_vars

(***************************************************************************)
(* C10 as claimed.  On a started session MAIL FROM:<addr> with any number  *)
(* of spaces before '<', after '<', before '>' and after '>' is answered   *)
(* "250 OK" and sets returnPath to the address without the spaces; RCPT    *)
(* extracts its address in the same way.                                   *)
(***************************************************************************)
C10_AddressWithoutSpaces ==
    \A a, b, c, d \in SpRange :
        /\ (Passed(AddrLine(StrMAILFROM, a, b, c, d, AddrABC))
                /\ HasStarted(smtpState))
              => /\ WrittenLines(io) = <<Msg250OK>>
                 /\ smtpState.ReturnTo = AddrABC
        /\ (Passed(AddrLine(StrRCPTTO, a, b, c, d, AddrABC))
                /\ HasStarted(smtpState))
              => /\ WrittenLines(io) = <<Msg250OK>>
                 /\ smtpState.Recipients = <<AddrABC>>

(***************************************************************************)
(* C10 as amended.  On a started session MAIL FROM:<addr> with any number  *)
(* of spaces before '<' and after '>' is answered "250 OK" and sets        *)
(* returnPath to the text between '<' and '>' as it stands: spaces after   *)
(* '<' and before '>' are kept in it.  RCPT extracts its address in the    *)
(* same way.                                                               *)
(***************************************************************************)
C10_AddressBetweenBrackets ==
    \A a, b, c, d \in SpRange :
        /\ (Passed(AddrLine(StrMAILFROM, a, b, c, d, AddrABC))
                /\ HasStarted(smtpState))
              => /\ WrittenLines(io) = <<Msg250OK>>
                 /\ smtpState.ReturnTo = Sp(b) \o AddrABC \o Sp(c)
        /\ (Passed(AddrLine(StrRCPTTO, a, b, c, d, AddrABC))
                /\ HasStarted(smtpState))
              => /\ WrittenLines(io) = <<Msg250OK>>
                 /\ smtpState.Recipients = <<Sp(b) \o AddrABC \o Sp(c)>>

\* "MAIL FROM: <a@b.c> " was accepted and a@b.c stored.
C10_Witness ==
    /\ Passed(AddrLine(StrMAILFROM, MaxSp, 0, 0, MaxSp, AddrABC))
    /\ MaxSp > 0
    /\ HasStarted(smtpState)
    /\ smtpState.ReturnTo = AddrABC
    /\ io = <<EvRead(TRUE), EvWrite(Msg250OK, TRUE)>>

(***************************************************************************)
(* C11.  greetingVerb (Hello) is set at most once per session.  A HELO or  *)
(* EHLO line with an argument on a session that has not started sets Hello *)
(* to the verb token and ClientName to the rest of the line and answers    *)
(* "250-<ServerName>", "250-AUTH PLAIN", "250 HELP" in that order; on a    *)
(* started session every HELO/EHLO is answered "550 Session has started",  *)
(* and on a session that has not started a HELO/EHLO without argument is   *)
(* answered with the syntax error (the start check comes first), both      *)
(* leaving the state as it was.  Hello is always "", "HELO" or "EHLO" and  *)
(* never changes once it is not empty.                                     *)
(***************************************************************************)

\* The greeting answer, in order.
HelloAnswer(st) == <<Str250Dash \o st.ServerName, MsgAuthPlain, MsgHelp>>

\* s is a prefix of t
IsPrefix(s, t) == Len(s) <= Len(t) /\ SubSeq(t, 1, Len(s)) = s

C11_HelloStep ==
    /\ smtpState.Hello \in {<<>>, StrHELO, StrEHLO}
    /\ smtpState'.Hello \in {<<>>, StrHELO, StrEHLO}
    /\ smtpState.Hello # <<>> => smtpState'.Hello = smtpState.Hello
    /\ \A l \in Lines :
          (Pass(l) /\ FirstToken(l) \in {StrHELO, StrEHLO}) =>
              IF smtpState.Hello # <<>>
              THEN /\ smtpState' = smtpState
                   /\ WrittenLines(io') = <<MsgHasStarted>>
              ELSE IF TrimSpace(l) = FirstToken(l)
              THEN /\ smtpState' = smtpState
                   /\ WrittenLines(io') = <<MsgHelloSyntax>>
              ELSE /\ smtpState'.Hello = FirstToken(l)
                   /\ TrimSpace(l) =
                         smtpState'.Hello \o <<" ">> \o smtpState'.ClientName
                   /\ smtpState' =
                         [smtpState EXCEPT !.Hello = smtpState'.Hello,
                                           !.ClientName = smtpState'.ClientName]
                   /\ WrittenLines(io') # <<>>
                   /\ IsPrefix(WrittenLines(io'), HelloAnswer(smtpState))
                   /\ ~WriteFailed(io')
                         => WrittenLines(io') = HelloAnswer(smtpState)

\* C11: every step of the session keeps Hello among "", "HELO", "EHLO", keeps
\* a Hello that is not empty, and handles a HELO/EHLO line as stated above.
C11_HelloSetAtMostOnce == [][C11_HelloStep]_vars

\* A HELO on a session opened by EHLO: refused, the state kept.
C11_Witness ==
    /\ Passed(LnHeloX)
    /\ smtpState.Hello = StrEHLO
    /\ smtpState.ClientName = <<"y">>
    /\ io = <<EvRead(TRUE), EvWrite(MsgHasStarted, TRUE)>>

(***************************************************************************)
(* C12.  When a session that was given a completion function processes     *)
(* QUIT, the function is invoked exactly once, after QUIT, with the        *)
(* session's final state: the state as it was when QUIT was read, which is *)
(* the state Run returns with.                                             *)
(* The code does not keep this: main passes a function to NewSMTPHandler,  *)
(* but the handler has no field for it and neither Run nor a command       *)
(* handler nor Close invokes it, so handed stays empty.                    *)
(***************************************************************************)
C12_CompletionStep ==
    \A l \in Lines :
        (Pass(l) /\ FirstToken(l) = StrQUIT) =>
            /\ handed' = <<smtpState>>
            /\ smtpState' = smtpState
            /\ pc' = "done"

\* C12: every pass that reads QUIT leaves exactly one invocation of the
\* completion function, with the state of the session, and Run has returned.
C12_CompletionOnceAfterQuit == [][C12_CompletionStep]_vars

(***************************************************************************)
(* The rendering of a state: String over the states of RenderStates.       *)
(***************************************************************************)

\* Largest number of header lines of a state of RenderStates.
MaxHeaders == 2

AddrFoo == <<"f","o","o","@","e","x","a","m","p","l","e",".","n","e","t">>
AddrU1Example == <<"u","1","@","e","x","a","m","p","l","e",".","n","e","t">>
AddrU2Example == <<"u","2","@","e","x","a","m","p","l","e",".","n","e","t">>
LnSubjectX == <<"S","u","b","j","e","c","t",":"," ","x">>
ContentHello == <<"h","e","l","l","o","\r","\n">>

\* The state with return path foo@example.net, recipients u1@example.net and
\* u2@example.net, the header "Subject: x" and the body "hello\r\n".
StateExample ==
    [NewSMTPState EXCEPT !.ReturnTo = AddrFoo,
                         !.Recipients = <<AddrU1Example, AddrU2Example>>,
                         !.Headers = <<LnSubjectX>>,
                         !.Content = ContentHello]

RenderStates ==
    {[NewSMTPState EXCEPT !.Hello = h, !.ReturnTo = r, !.Recipients = rs,
                          !.Headers = hs, !.Content = c] :
        h \in {StrEHLO}, r \in {<<>>, AddrABC},
        rs \in SeqsUpTo({AddrU1, AddrU2}, MaxRcpt),
        hs \in SeqsUpTo({LnSubjectHi, LnLine1}, MaxHeaders),
        c \in {<<>>, ContentHello}}
    \cup {StateExample}

\* A state is built and String is about to be called on it.
InitString ==
    /\ smtpState \in RenderStates
    /\ closing = FALSE
    /\ pc = "String"
    /\ line = <<>>
    /\ io = <<>>
    /\ werr = FALSE
    /\ closeCount = 0
    /\ dotLines = <<>>
    /\ ret = "none"
    /\ handed = <<>>
    /\ rendered = <<>>
    /\ sess = <<>>
    /\ heap = <<>>
    /\ table = smtpCommandMap

\* The call st.String(): the result is kept, String assigns no field.
StringCall ==
    /\ pc = "String"
    /\ rendered' = String(smtpState)
    /\ pc' = "StringReturned"
    /\ UNCHANGED <<smtpState, closing, line, io, werr, closeCount, dotLines,
                   ret, handed, sess, heap, table>>

NextString == StringCall

SpecString == InitString /\ [][NextString]_vars

(***************************************************************************)
(* C13.  Rendering is a pure, order-preserving function of the state: the  *)
(* result is the line "MAIL FROM: <ReturnTo>", then one line               *)
(* "RCPT TO: <addr>" per recipient in the order of Recipients, then the    *)
(* line "DATA", then each header line verbatim in order, then one empty    *)
(* line, each of these ended by CR LF, followed by the body bytes          *)
(* unchanged; rendering does not modify the state.                         *)
(***************************************************************************)

\* The lines of the rendering of st, without their line ends.
RenderedLines(st) ==
    <<StrMAILFROM \o <<" ", "<">> \o st.ReturnTo \o <<">">> >>
    \o [i \in 1..Len(st.Recipients) |->
           StrRCPTTO \o <<" ", "<">> \o st.Recipients[i] \o <<">">>]
    \o <<StrDATA>>
    \o st.Headers
    \o << <<>> >>

\* text is the lines ls, each ended by CR LF, followed by rest.
RECURSIVE IsLinesThen(_, _, _)
IsLinesThen(text, ls, rest) ==
    IF ls = <<>> THEN text = rest
    ELSE LET n == Len(Head(ls))
         IN  /\ Len(text) >= n + 2
             /\ SubSeq(text, 1, n) = Head(ls)
             /\ text[n + 1] = "\r"
             /\ text[n + 2] = "\n"
             /\ IsLinesThen(SubSeq(text, n + 3, Len(text)), Tail(ls), rest)

\* The rendering of StateExample
RenderedExample ==
    <<"M","A","I","L"," ","F","R","O","M",":"," ","<","f","o","o","@","e",
      "x","a","m","p","l","e",".","n","e","t",">","\r","\n","R","C","P","T",
      " ","T","O",":"," ","<","u","1","@","e","x","a","m","p","l","e",".",
      "n","e","t",">","\r","\n","R","C","P","T"," ","T","O",":"," ","<","u",
      "2","@","e","x","a","m","p","l","e",".","n","e","t",">","\r","\n","D",
      "A","T","A","\r","\n","S","u","b","j","e","c","t",":"," ","x","\r",
      "\n","\r","\n","h","e","l","l","o","\r","\n">>

C13_StringStep ==
    pc = "String" =>
        /\ IsLinesThen(rendered', RenderedLines(smtpState), smtpState.Content)
        /\ smtpState = StateExample => rendered' = RenderedExample
        /\ smtpState' = smtpState

\* C13: every call of String returns the lines stated above followed by the
\* body, and leaves the state as it was.
C13_StringRendersState == [][C13_StringStep]_vars

\* The state of the example has been rendered.
C13_Witness ==
    /\ pc = "StringReturned"
    /\ smtpState = StateExample
    /\ rendered = RenderedExample

(***************************************************************************)
(* C14.  Every failed write of a response line is fatal for the session,   *)
(* the "220" greeting included: after a write has failed the session loop  *)
(* reads no further line and dispatches no further command.                *)
(* The code does not keep this: Run drops the error of the Send of the     *)
(* greeting and goes on to read and dispatch the next line.                *)
(***************************************************************************)
C14_WriteFailureStep == werr => ~(io' # <<>> /\ io'[1][1] = "readline")

\* C14: no step that follows a failed write reads a line.
C14_WriteFailureIsFatal == [][C14_WriteFailureStep]_vars

(***************************************************************************)
(* C15.  Once a QUIT command has been handled the session loop reads no    *)
(* further line and dispatches no further command, whatever the peer has   *)
(* sent after it: the pass that handles QUIT makes one read, keeps the     *)
(* state and ends with Run returned, and nothing happens after it.         *)
(***************************************************************************)

\* The last step was the pass that handled a QUIT.
QuitHandled ==
    io # <<>> /\ io[1] = EvRead(TRUE) /\ FirstToken(line) = StrQUIT

\* The number of ReadLine and ReadDotLines calls among evs.
Reads(evs) ==
    Cardinality({i \in 1..Len(evs) : evs[i][1] \in {"readline", "readdot"}})

C15_QuitStep ==
    /\ ~QuitHandled
    /\ \A l \in Lines :
          (Pass(l) /\ FirstToken(l) = StrQUIT) =>
              /\ smtpState' = smtpState
              /\ Reads(io') = 1
              /\ closing'
              /\ pc' = "done"
              /\ ret' # "none"

\* C15: no step follows the pass that handled QUIT, and that pass reads the
\* QUIT line only, keeps the state and makes Run return.
C15_NothingAfterQuit == [][C15_QuitStep]_vars

\* Run has returned nil after QUIT with the envelope it had before.
C15_Witness ==
    /\ QuitHandled
    /\ pc = "done"
    /\ ret = "nil"
    /\ smtpState.Hello = StrHELO
    /\ smtpState.Recipients = <<AddrU1, AddrU2>>

(***************************************************************************)
(* C16.  If reading the dot-terminated block fails during DATA, headers    *)
(* and body keep the values they had before that DATA (nothing of the      *)
(* lines read before the failure is stored), no further response is        *)
(* written, and the session ends with the error.                           *)
(***************************************************************************)
C16_DataReadFailureStep ==
    (\E i \in 1..Len(io') : io'[i] = EvReadDot(FALSE)) =>
        /\ AtReadDotLines
        /\ smtpState' = smtpState
        /\ SubSeq(io', 1, 3) =
              <<EvRead(TRUE), EvWrite(Msg250OK, TRUE), EvReadDot(FALSE)>>
        /\ WrittenLines(io') = <<Msg250OK>>
        /\ pc' = "done"
        /\ ret' = "err"

\* C16: every step in which the block read of a DATA fails keeps the state,
\* writes nothing after the prompt and makes Run return the error.
C16_DataReadFailureKeepsState == [][C16_DataReadFailureStep]_vars

\* A DATA whose block read failed after five lines, on a session that holds
\* the header and body of an earlier DATA.
C16_Witness ==
    /\ Passed(LnData)
    /\ Len(io) >= 3
    /\ io[3] = EvReadDot(FALSE)
    /\ dotLines = BlockExample
    /\ smtpState.Headers = <<LnSubjectHi>>
    /\ smtpState.Content = LnLine2 \o <<"\r", "\n">>
    /\ pc = "done"
    /\ ret = "err"

(***************************************************************************)
(* The session under fairness: Run takes its next step when it can, and    *)
(* the peer's input eventually yields QUIT to ReadLine or a failure to the *)
(* read Run waits in.  Run sets no read deadline: a peer that stays silent *)
(* for ever, after DATA's prompt or anywhere else, keeps Run waiting, and  *)
(* is not a peer whose input yields QUIT or a read failure.                *)
(***************************************************************************)

\* The lines and blocks the peer sends in SpecLive: a line for every handler
\* and for the unknown command.
LinesLive ==
    {LnHeloX, LnMailABC, LnRcptU1, LnRset, LnVrfy, LnNoop, LnFooBar, LnQuitCR,
     LnData}
BlocksLive == {<<>>, BlockExample}

NextLive ==
    \/ Greet
    \/ ReadLineFail
    \/ \E l \in LinesLive : HelloCommand(l)
    \/ \E l \in LinesLive : MailCommand(l)
    \/ \E l \in LinesLive :
          Len(smtpState.Recipients) < MaxRcpt /\ RecipientCommand(l)
    \/ \E l \in LinesLive : ResetCommand(l)
    \/ \E l \in LinesLive : VerifyCommand(l)
    \/ \E l \in LinesLive : NoopCommand(l)
    \/ \E l \in LinesLive : NotRecognized(l)
    \/ \E l \in LinesLive : QuitCommand(l)
    \/ \E l \in LinesLive : DataCommand(l)
    \/ \E b \in BlocksLive : DataCommandReadDotLines(TRUE, b)
    \/ \E b \in BlocksLive : DataCommandReadDotLines(FALSE, b)

\* The read Run waits in yields QUIT or fails: ReadLine in the loop, or
\* ReadDotLines in DataCommand, where a line QUIT is a line of the block and
\* only a failure ends the wait.
QuitOrReadFailure ==
    \/ ReadLineFail
    \/ \E l \in LinesLive : QuitCommand(l)
    \/ \E b \in BlocksLive : DataCommandReadDotLines(FALSE, b)

SpecLive ==
    Init /\ [][NextLive]_vars /\ WF_vars(Greet) /\ WF_vars(QuitOrReadFailure)

(***************************************************************************)
(* C17.  Every session terminates with its connection closed: if the       *)
(* peer's input eventually yields QUIT or a read failure, Run eventually   *)
(* returns; whenever Run has returned (after QUIT, a read failure, a write *)
(* failure or a handler error) the connection has been closed; and a read  *)
(* failure produces no response line.                                      *)
(***************************************************************************)

\* Run has returned.
Returned == pc = "done"

\* The last step was the pass in which ReadLine failed.
ReadFailed == io # <<>> /\ io[1] = EvRead(FALSE)

C17_ClosedWhenReturned ==
    /\ Returned => (ret \in {"nil", "err"} /\ closing /\ closeCount >= 1
                    /\ io[Len(io)][1] = "close")
    /\ ReadFailed => (Returned /\ ret = "err" /\ WrittenLines(io) = <<>>)

\* C17: Run eventually returns, and in every state in which it has returned
\* net.Conn.Close has been called; the pass of a failed read writes nothing.
C17_TerminatesClosed == <>Returned /\ []C17_ClosedWhenReturned

\* Run has returned the read error on a started session; the connection was
\* closed once, nothing was written.
C17_Witness ==
    /\ Returned
    /\ ReadFailed
    /\ io = <<EvRead(FALSE), EvClose(TRUE)>>
    /\ closeCount = 1
    /\ smtpState.Hello = StrHELO
    /\ smtpState.Recipients # <<>>

(***************************************************************************)
(* C18.  The response protocol of DATA: the handler writes exactly one     *)
(* line, "250 OK", before it reads the block, and writes nothing after the *)
(* block has been read and stored; the lines of the block are not taken as *)
(* commands; what is written next, after that prompt, belongs to the pass  *)
(* that reads the first command line after the block.                      *)
(***************************************************************************)
C18_DataStep ==
    /\ \A l \in Lines :
          (Pass(l) /\ FirstToken(l) = StrDATA) =>
              /\ Len(io') >= 2
              /\ io'[2][1] = "write" /\ io'[2][2] = Msg250OK
              /\ Len(WrittenLines(io')) = 1
              /\ Reads(io') = 1
              /\ smtpState' = smtpState
              /\ IF io'[2][3]
                 THEN Len(io') = 2 /\ pc' = "data" /\ ret' = "none"
                 ELSE pc' = "done" /\ ret' = "err"
    /\ AtReadDotLines =>
          /\ io = <<EvRead(TRUE), EvWrite(Msg250OK, TRUE)>>
          /\ FirstToken(line) = StrDATA
          /\ Len(io') >= 3 /\ SubSeq(io', 1, 2) = io
          /\ io'[3][1] = "readdot"
          /\ WrittenLines(io') = <<Msg250OK>>
          /\ io'[3] = EvReadDot(TRUE) =>
                /\ Len(io') = 3
                /\ pc' = "loop" /\ ~closing' /\ ret' = "none"
                /\ closeCount' = closeCount
                /\ handed' = handed
                /\ smtpState'.Recipients = smtpState.Recipients
                /\ smtpState'.ReturnTo = smtpState.ReturnTo
                /\ dotLines' = BlockCommands =>
                      /\ smtpState'.Headers = <<LnRset>>
                      /\ smtpState'.Content = LnQuit \o <<"\r", "\n">>
    /\ DataStored => (io' # <<>> /\ io'[1][1] = "readline")

\* C18: every DATA pass writes the prompt and no other line and keeps the
\* state while it waits for the block; the block is read only after the
\* prompt was written; the pass ends with the block read, its lines stored
\* and not executed; the next pass begins with the read of the next command
\* line.
C18_DataWritesPromptOnly == [][C18_DataStep]_vars

\* A block whose lines are RSET, an empty line and QUIT has been stored on a
\* session with an envelope: the envelope is kept and the session goes on.
C18_Witness ==
    /\ Passed(LnData)
    /\ io = <<EvRead(TRUE), EvWrite(Msg250OK, TRUE), EvReadDot(TRUE)>>
    /\ dotLines = BlockCommands
    /\ smtpState.Headers = <<LnRset>>
    /\ smtpState.ReturnTo = AddrABC
    /\ smtpState.Recipients = <<AddrU1>>
    /\ pc = "loop"

(***************************************************************************)
(* C20.  A completed DATA replaces headers and body wholly by the split of *)
(* the new block: nothing stored by an earlier DATA of the session is kept *)
(* or appended to, and an empty block leaves both empty; DATA leaves       *)
(* Hello, ServerName, ClientName, ReturnTo and Recipients unchanged.       *)
(***************************************************************************)

\* The lines of the block B before its first blank line (all, without one).
HeadersOf(B) ==
    LET blanks == {i \in 1..Len(B) : IsBlankLine(B[i])}
    IN  IF blanks = {} THEN B
        ELSE SubSeq(B, 1, (CHOOSE i \in blanks : \A j \in blanks : i <= j) - 1)

\* The lines of the block B after its first blank line, each followed by
\* CR LF.
BodyOf(B) ==
    LET blanks == {i \in 1..Len(B) : IsBlankLine(B[i])}
    IN  IF blanks = {} THEN <<>>
        ELSE BodyFrom(B, (CHOOSE i \in blanks : \A j \in blanks : i <= j) + 1)

C20_DataStep ==
    /\ (io' # <<>> /\ io'[Len(io')] = EvReadDot(TRUE)) =>
          /\ AtReadDotLines
          /\ smtpState' = [smtpState EXCEPT !.Headers = HeadersOf(dotLines'),
                                            !.Content = BodyOf(dotLines')]
          /\ dotLines' = <<>> =>
                (smtpState'.Headers = <<>> /\ smtpState'.Content = <<>>)
    /\ (AtReadLine /\ pc' = "data") => smtpState' = smtpState

\* C20: every step that completes a DATA leaves a state that differs from
\* the one before in Headers and Content only, and these are the split of
\* the block just read, whatever they were before; the step that writes the
\* prompt changes no field.
C20_DataReplacesHeadersAndBody == [][C20_DataStep]_vars

\* An empty block has been stored on a started session with an envelope:
\* headers and body are empty, the other fields are there.
C20_Witness ==
    /\ DataStored
    /\ dotLines = <<>>
    /\ smtpState.Headers = <<>>
    /\ smtpState.Content = <<>>
    /\ smtpState.Hello = StrEHLO
    /\ smtpState.ClientName = <<"y">>
    /\ smtpState.ReturnTo = AddrFG
    /\ smtpState.Recipients = <<AddrU2, AddrU1>>

(***************************************************************************)
(* SpecTwo: two sessions at once.  main accepts a connection, constructs   *)
(* a handler for it and starts Run in a goroutine of its own; the steps of *)
(* the two goroutines interleave in any order.  Each Run constructs its    *)
(* SMTPConnection and with it its SMTPState object; the handlers are       *)
(* looked up in the package variable smtpCommandMap.  The connections of   *)
(* SpecTwo take every write and close; a read yields a line or the end of  *)
(* the input.                                                              *)
(***************************************************************************)

\* The connections main has accepted.
SessionIds == {1, 2}

\* Largest number of command lines a session of SpecTwo reads.
MaxInput == 2

\* The lines and the block the peers of SpecTwo send.
TwoLines == {LnHeloX, LnMailABC, LnRcptU1, LnData, LnQuit}
TwoBlock == <<LnSubjectHi, <<>>, LnLine1>>

\* Mutant of NewSMTPConnection: the state object is one package-level object
\* that every connection gets.
NewSMTPConnectionSharedState(hp) ==
    IF hp = <<>>
    THEN [heap |-> <<NewSMTPState>>, ref |-> 1]
    ELSE [heap |-> [hp EXCEPT ![1] = NewSMTPState], ref |-> 1]

\* NewSMTPConnection: smtpState is a new object, &SMTPState{}; hp is the
\* heap of SMTPState objects, ref the reference the connection keeps.
NewSMTPConnection(hp) ==
    [heap |-> Append(hp, NewSMTPState), ref |-> Len(hp) + 1]

\* Run's loop body on the line l with all writes taken, up to the return of
\* the handler or to DataCommand's wait for its block: the handler found in
\* tbl is executed on the state st; the result is the state, the lines
\* written, whether the handler has set closing and whether it waits in
\* ReadDotLines.
Dispatch(tbl, st, l) ==
    LET xs == SplitN2(TrimSpace(l))
        h  == IF xs[1] \in DOMAIN tbl THEN tbl[xs[1]] ELSE "unknown"
        r  == CASE h = "HelloCommand" -> HelloCommandExecute(st, l)
                [] h = "MailCommand" -> MailCommandExecute(st, l)
                [] h = "RecipientCommand" -> RecipientCommandExecute(st, l)
                [] h = "ResetCommand" -> ResetCommandExecute(st, l)
                [] h = "VerifyCommand" -> VerifyCommandExecute(st, l)
                [] h = "NoopCommand" -> NoopCommandExecute(st, l)
                [] h = "QuitCommand" -> [st |-> st, msgs |-> <<Msg221>>]
                [] h = "DataCommand" -> [st |-> st, msgs |-> <<Msg250OK>>]
                [] OTHER -> [st |-> st, msgs |-> <<MsgNotRecognized>>]
    IN  [st |-> r.st, msgs |-> r.msgs, closing |-> (h = "QuitCommand"),
         wait |-> (h = "DataCommand")]

\* main has accepted the two connections and started Run for each.
InitTwo ==
    /\ smtpState = NewSMTPState
    /\ closing = FALSE
    /\ pc = "two"
    /\ line = <<>>
    /\ io = <<>>
    /\ werr = FALSE
    /\ closeCount = 0
    /\ dotLines = <<>>
    /\ ret = "none"
    /\ handed = <<>>
    /\ rendered = <<>>
    /\ sess = [c \in SessionIds |->
                 [pc |-> "greet", state |-> 0, input |-> <<>>, out |-> <<>>]]
    /\ heap = <<>>
    /\ table = smtpCommandMap

\* What the sessions of SpecTwo leave untouched.
single ==
    <<smtpState, closing, pc, line, io, werr, closeCount, dotLines, ret,
      handed, rendered>>

\* Session c: Run up to its loop.
TwoGreet(c) ==
    /\ sess[c].pc = "greet"
    /\ LET n == NewSMTPConnection(heap)
       IN  /\ heap' = n.heap
           /\ sess' = [sess EXCEPT ![c].pc = "loop", ![c].state = n.ref,
                                   ![c].out = <<Msg220>>]
    /\ UNCHANGED <<table, single>>

\* What a session has read: a command line, or the block of a DATA.
ItemLine(l) == <<"line", l>>
ItemBlock(b) == <<"block", b>>

\* The number of command lines among the items inp.
LinesRead(inp) == Cardinality({i \in 1..Len(inp) : inp[i][1] = "line"})

\* Session c: the loop body on the line l, up to the return of the handler
\* or to DataCommand's wait for its block.
TwoPass(c, l) ==
    /\ sess[c].pc = "loop"
    /\ LinesRead(sess[c].input) < MaxInput
    /\ LET r == Dispatch(table, heap[sess[c].state], l)
       IN  /\ heap' = [heap EXCEPT ![sess[c].state] = r.st]
           /\ sess' = [sess EXCEPT
                         ![c].pc = IF r.closing THEN "done"
                                   ELSE IF r.wait THEN "data" ELSE "loop",
                         ![c].input = Append(@, ItemLine(l)),
                         ![c].out = @ \o r.msgs]
    /\ UNCHANGED <<table, single>>

\* Session c: DataCommand's ReadDotLines returns the block and the handler
\* stores it.
TwoReadDotLines(c) ==
    /\ sess[c].pc = "data"
    /\ heap' = [heap EXCEPT
                  ![sess[c].state] = DataCommandStore(@, TwoBlock)]
    /\ sess' = [sess EXCEPT ![c].pc = "loop",
                            ![c].input = Append(@, ItemBlock(TwoBlock))]
    /\ UNCHANGED <<table, single>>

\* Session c: the input has ended, ReadLine fails and Run returns.
TwoReadLineFail(c) ==
    /\ sess[c].pc = "loop"
    /\ sess' = [sess EXCEPT ![c].pc = "done"]
    /\ UNCHANGED <<heap, table, single>>

\* Session c: the input has ended inside the block, ReadDotLines fails, the
\* handler returns the error and Run returns.
TwoReadDotLinesFail(c) ==
    /\ sess[c].pc = "data"
    /\ sess' = [sess EXCEPT ![c].pc = "done"]
    /\ UNCHANGED <<heap, table, single>>

NextTwo ==
    \/ \E c \in SessionIds : TwoGreet(c)
    \/ \E c \in SessionIds, l \in TwoLines : TwoPass(c, l)
    \/ \E c \in SessionIds : TwoReadDotLines(c)
    \/ \E c \in SessionIds : TwoReadLineFail(c)
    \/ \E c \in SessionIds : TwoReadDotLinesFail(c)

SpecTwo == InitTwo /\ [][NextTwo]_vars

\* A session running alone from the greeting on through the items inp (the
\* command lines and blocks read, in order): its state and the lines it has
\* written.
RECURSIVE Alone(_)
Alone(inp) ==
    IF inp = <<>>
    THEN [st |-> NewSMTPState, out |-> <<Msg220>>]
    ELSE LET n    == Len(inp)
             prev == Alone(SubSeq(inp, 1, n - 1))
         IN  IF inp[n][1] = "block"
             THEN [st |-> DataCommandStore(prev.st, inp[n][2]),
                   out |-> prev.out]
             ELSE LET r == Dispatch(smtpCommandMap, prev.st, inp[n][2])
                  IN  [st |-> r.st, out |-> prev.out \o r.msgs]

(***************************************************************************)
(* C19.  Sessions are isolated: with two sessions running at once on       *)
(* their own connections, in every interleaving of their steps, the state  *)
(* and the responses of each session are those of the session running      *)
(* alone on the same input, and the dispatch table is never modified.      *)
(***************************************************************************)
C19_SessionsIsolated ==
    /\ table = smtpCommandMap
    /\ \A c \in SessionIds :
          sess[c].pc # "greet" =>
              /\ heap[sess[c].state] = Alone(sess[c].input).st
              /\ sess[c].out = Alone(sess[c].input).out

\* The two sessions have run interleaved (the second constructed its state
\* first): while session 2 waited for its block, session 1 stored an
\* envelope sender; then session 2 stored its block.
C19_Witness ==
    /\ sess[1].state = 2
    /\ sess[2].state = 1
    /\ sess[1].input = <<ItemLine(LnHeloX), ItemLine(LnMailABC)>>
    /\ sess[2].input =
          <<ItemLine(LnHeloX), ItemLine(LnData), ItemBlock(TwoBlock)>>
    /\ heap[2].ReturnTo = AddrABC
    /\ heap[2].Headers = <<>>
    /\ heap[1].ReturnTo = <<>>
    /\ heap[1].Headers = <<LnSubjectHi>>

====
